---- MODULE Spec2Model ----
(***************************************************************************)
(* GonumGraph (concretegraph.go): a mutable graph kept as two maps of      *)
(* maps, successors and predecessors, a node lookup map and a directed     *)
(* flag.  Every public method is one action; the method bodies are the     *)
(* operators of the same name, which take the graph as a record and give   *)
(* the graph the call leaves behind.                                       *)
(*                                                                         *)
(* Go maps are functions with an explicit domain.  A nil map reads as the  *)
(* empty map, delete on it does nothing, and an assignment to it panics:   *)
(* the field fault records the panic, and the statements after it in the   *)
(* method do not run.  Costs are float64 in the code; the model uses the   *)
(* integers 0..MaxCost for 0.0, 1.0, 2.0, ...                              *)
(***************************************************************************)
EXTENDS Integers, Sequences, FiniteSets

\* Bounds of the model.
MaxNode == 1
MaxSuccs == 1
MaxCost == 2
MaxOps == 3
MaxDim == 2

\* The cost AddNode and AddEdge store for a new edge (1.0).
DefaultCost == 1

NodeIDs == 0..MaxNode
CostValues == 0..MaxCost
SuccLists == UNION {[1..k -> NodeIDs] : k \in 0..MaxSuccs}

VARIABLES successors, predecessors, nodeMap, directed, fault, last, pre, steps,
          tileGraph, result

vars == <<successors, predecessors, nodeMap, directed, fault, last, pre, steps,
          tileGraph, result>>

\* ------------------------------------------------------------ Go maps

EmptyMap == [x \in {} |-> 0]

Put(m, k, v) == [x \in (DOMAIN m) \cup {k} |-> IF x = k THEN v ELSE m[x]]

Delete(m, k) == [x \in (DOMAIN m) \ {k} |-> m[x]]

\* len(m)
MapLen(m) == Cardinality(DOMAIN m)

\* m[k1], the nil (empty) map when k1 is no key of m
Inner(m, k1) == IF k1 \in DOMAIN m THEN m[k1] ELSE EmptyMap

\* The struct, as a record.  nodeMap.isNil: the field holds no map yet.
graph == [successors |-> successors, predecessors |-> predecessors,
          nodeMap |-> nodeMap, directed |-> directed, fault |-> fault]

\* graph.successors[a][b] = c : panics when graph.successors[a] is nil
SetSucc(g, a, b, c) ==
    IF g.fault THEN g
    ELSE IF a \notin DOMAIN g.successors THEN [g EXCEPT !.fault = TRUE]
    ELSE [g EXCEPT !.successors[a] = Put(@, b, c)]

\* graph.predecessors[a][b] = c : panics when graph.predecessors[a] is nil
SetPred(g, a, b, c) ==
    IF g.fault THEN g
    ELSE IF a \notin DOMAIN g.predecessors THEN [g EXCEPT !.fault = TRUE]
    ELSE [g EXCEPT !.predecessors[a] = Put(@, b, c)]

\* graph.nodeMap[id] = node : panics when graph.nodeMap is nil
SetNodeMap(g, id, node) ==
    IF g.fault THEN g
    ELSE IF g.nodeMap.isNil THEN [g EXCEPT !.fault = TRUE]
    ELSE [g EXCEPT !.nodeMap.m = Put(@, id, node)]

\* graph.successors[id] = make(map[int]float64)
MakeSucc(g, id) ==
    IF g.fault THEN g ELSE [g EXCEPT !.successors = Put(@, id, EmptyMap)]

\* graph.predecessors[id] = make(map[int]float64)
MakePred(g, id) ==
    IF g.fault THEN g ELSE [g EXCEPT !.predecessors = Put(@, id, EmptyMap)]

\* delete(graph.successors[a], b)
DelSucc(g, a, b) ==
    IF g.fault \/ a \notin DOMAIN g.successors THEN g
    ELSE [g EXCEPT !.successors[a] = Delete(@, b)]

\* delete(graph.predecessors[a], b)
DelPred(g, a, b) ==
    IF g.fault \/ a \notin DOMAIN g.predecessors THEN g
    ELSE [g EXCEPT !.predecessors[a] = Delete(@, b)]

\* ------------------------------------------------------------ Graph (read side)

NodeExists(g, n) == n \in DOMAIN g.successors

IsSuccessor(g, n, s) ==
    IF n \notin DOMAIN g.successors THEN FALSE
    ELSE s \in DOMAIN g.successors[n]

IsPredecessor(g, n, p) ==
    IF n \notin DOMAIN g.successors THEN FALSE
    ELSE p \in DOMAIN Inner(g.predecessors, n)

\* The IDs of the nodes NodeList returns (the slice's order is the map's)
NodeList(g) == DOMAIN g.nodeMap.m

IsDirected(g) == g.directed

\* graph.successors[a][b], 0.0 for a missing key at either level
Cost(g, a, b) ==
    IF b \in DOMAIN Inner(g.successors, a) THEN g.successors[a][b] ELSE 0

\* A Node value in a result slice: the nil interface value, or a node
NilNode == [isNil |-> TRUE, id |-> 0]

\* graph.nodeMap[k]: the node stored, nil for a missing key
NodeAt(g, k) ==
    IF k \in DOMAIN g.nodeMap.m THEN [isNil |-> FALSE, id |-> g.nodeMap.m[k]]
    ELSE NilNode

\* The keys of a map in the order a range loop visits them.  Go leaves the
\* order open; ascending order stands for it, and no property below reads
\* the order.
RECURSIVE RangeOrder(_)
RangeOrder(keys) ==
    IF keys = {} THEN <<>>
    ELSE LET k == CHOOSE x \in keys : \A y \in keys : x <= y
         IN  <<k>> \o RangeOrder(keys \ {k})

\* make([]Node, n): n nil entries
MakeSlice(n) == [i \in 1..n |-> NilNode]

\* The slice the loop of Successors and Predecessors builds: append to a
\* slice that already holds len(m) entries
AppendNodes(g, m) ==
    LET order == RangeOrder(DOMAIN m)
    IN  MakeSlice(MapLen(m)) \o [i \in 1..Len(order) |-> NodeAt(g, order[i])]

Successors(g, n) ==
    IF n \notin DOMAIN g.successors THEN <<>>
    ELSE AppendNodes(g, g.successors[n])

Predecessors(g, n) ==
    IF n \notin DOMAIN g.successors THEN <<>>
    ELSE AppendNodes(g, Inner(g.predecessors, n))

\* Degree that counts the successor map twice
Degree_OutTwice(g, n) ==
    IF n \notin DOMAIN g.successors THEN 0
    ELSE MapLen(g.successors[n]) + MapLen(g.successors[n])

Degree(g, n) ==
    IF n \notin DOMAIN g.successors THEN 0
    ELSE MapLen(g.successors[n]) + MapLen(Inner(g.predecessors, n))

\* Both reads of IsAdjacent go to the predecessor map
IsAdjacent(g, n, neigh) ==
    IF n \notin DOMAIN g.successors THEN FALSE
    ELSE LET succ == neigh \in DOMAIN Inner(g.predecessors, n)
             pred == neigh \in DOMAIN Inner(g.predecessors, n)
         IN  succ \/ pred

\* The edges EdgeList returns, each as <<head node, tail node>>
EdgeList(g) ==
    UNION {{<<NodeAt(g, id), NodeAt(g, succ)>> : succ \in DOMAIN g.successors[id]} :
           id \in DOMAIN g.successors}

\* ------------------------------------------------------------ MutableGraph

\* One pass of AddNode's loop over successors
AddNodeSuccessor(g, id, succ) ==
    LET g1 == SetSucc(g, id, succ, DefaultCost)
        g2 == IF succ \notin DOMAIN g1.successors
              THEN MakeSucc(MakePred(SetNodeMap(g1, succ, succ), succ), succ)
              ELSE g1
        g3 == SetPred(g2, succ, id, DefaultCost)
    IN  IF ~g3.directed
        THEN SetPred(SetSucc(g3, succ, id, DefaultCost), id, succ, DefaultCost)
        ELSE g3

RECURSIVE AddNodeLoop(_, _, _, _)
AddNodeLoop(g, id, succs, i) ==
    IF i > Len(succs) \/ g.fault THEN g
    ELSE AddNodeLoop(AddNodeSuccessor(g, id, succs[i]), id, succs, i + 1)

\* AddNode without the check that the node is already in the graph
AddNode_NoExistsCheck(g, id, succs) ==
    AddNodeLoop(MakePred(MakeSucc(SetNodeMap(g, id, id), id), id), id, succs, 1)

AddNode(g, id, succs) ==
    IF id \in DOMAIN g.successors THEN g
    ELSE AddNodeLoop(MakePred(MakeSucc(SetNodeMap(g, id, id), id), id), id, succs, 1)

\* The ID NewNode picks: the first index of the sorted ID list that differs
\* from the ID stored there, or the list's length when none differs
NewNodeID(g) ==
    LET ids == NodeList(g)
        Index(x) == Cardinality({y \in ids : y < x})
        off == {x \in ids : Index(x) # x}
    IN  IF off # {}
        THEN Index(CHOOSE x \in off : \A y \in off : x <= y)
        ELSE Cardinality(ids)

NewNode(g, succs) == AddNode(g, NewNodeID(g), succs)

\* AddEdge that leaves an edge already stored as it is
AddEdge_KeepsStored(g, id, successor) ==
    IF id \notin DOMAIN g.successors THEN g
    ELSE IF successor \in DOMAIN g.successors[id] THEN g
    ELSE LET g1 == IF successor \notin DOMAIN g.successors
                   THEN MakePred(MakeSucc(SetNodeMap(g, successor, successor),
                                          successor), successor)
                   ELSE g
             g2 == SetPred(SetSucc(g1, id, successor, DefaultCost),
                           successor, id, DefaultCost)
         IN  IF ~g2.directed
             THEN SetPred(SetSucc(g2, successor, id, DefaultCost),
                          id, successor, DefaultCost)
             ELSE g2

\* AddEdge that creates the tail's adjacency maps and not its nodeMap entry
AddEdge_NoLookup(g, id, successor) ==
    IF id \notin DOMAIN g.successors THEN g
    ELSE LET g1 == IF successor \notin DOMAIN g.successors
                   THEN MakePred(MakeSucc(g, successor), successor)
                   ELSE g
             g2 == SetPred(SetSucc(g1, id, successor, DefaultCost),
                           successor, id, DefaultCost)
         IN  IF ~g2.directed
             THEN SetPred(SetSucc(g2, successor, id, DefaultCost),
                          id, successor, DefaultCost)
             ELSE g2

AddEdge(g, id, successor) ==
    IF id \notin DOMAIN g.successors THEN g
    ELSE LET g1 == IF successor \notin DOMAIN g.successors
                   THEN MakePred(MakeSucc(SetNodeMap(g, successor, successor),
                                          successor), successor)
                   ELSE g
             g2 == SetPred(SetSucc(g1, id, successor, DefaultCost),
                           successor, id, DefaultCost)
         IN  IF ~g2.directed
             THEN SetPred(SetSucc(g2, successor, id, DefaultCost),
                          id, successor, DefaultCost)
             ELSE g2

\* SetEdgeCost that does not ask whether the edge is stored
SetEdgeCost_NoEdgeCheck(g, id, successor, cost) ==
    IF id \notin DOMAIN g.successors THEN g
    ELSE LET g2 == SetPred(SetSucc(g, id, successor, cost), successor, id, cost)
         IN  IF ~g2.directed
             THEN SetPred(SetSucc(g2, successor, id, cost), id, successor, cost)
             ELSE g2

\* SetEdgeCost without the reciprocal entries of an undirected graph
SetEdgeCost_NoMirror(g, id, successor, cost) ==
    IF id \notin DOMAIN g.successors THEN g
    ELSE IF successor \notin DOMAIN g.successors[id] THEN g
    ELSE SetPred(SetSucc(g, id, successor, cost), successor, id, cost)

SetEdgeCost(g, id, successor, cost) ==
    IF id \notin DOMAIN g.successors THEN g
    ELSE IF successor \notin DOMAIN g.successors[id] THEN g
    ELSE LET g2 == SetPred(SetSucc(g, id, successor, cost), successor, id, cost)
         IN  IF ~g2.directed
             THEN SetPred(SetSucc(g2, successor, id, cost), id, successor, cost)
             ELSE g2

\* for succ := range graph.successors[id] { delete(graph.predecessors[succ], id) }
RECURSIVE ScrubPreds(_, _, _)
ScrubPreds(g, id, todo) ==
    IF todo = {} THEN g
    ELSE LET succ == CHOOSE x \in todo : TRUE
         IN  ScrubPreds(DelPred(g, succ, id), id, todo \ {succ})

\* for pred := range graph.predecessors[id] { delete(graph.successors[pred], id) }
RECURSIVE ScrubSuccs(_, _, _)
ScrubSuccs(g, id, todo) ==
    IF todo = {} THEN g
    ELSE LET pred == CHOOSE x \in todo : TRUE
         IN  ScrubSuccs(DelSucc(g, pred, id), id, todo \ {pred})

RemoveNode(g, id) ==
    IF id \in DOMAIN g.successors THEN g
    ELSE LET g1 == [g EXCEPT !.nodeMap.m = Delete(@, id)]
             g2 == ScrubPreds(g1, id, DOMAIN Inner(g1.successors, id))
             g3 == [g2 EXCEPT !.successors = Delete(@, id)]
             g4 == ScrubSuccs(g3, id, DOMAIN Inner(g3.predecessors, id))
         IN  [g4 EXCEPT !.predecessors = Delete(@, id)]

\* RemoveEdge that leaves the predecessor entry of the edge
RemoveEdge_KeepsPred(g, id, succ) ==
    IF id \notin DOMAIN g.successors THEN g
    ELSE IF succ \notin DOMAIN g.successors THEN g
    ELSE LET g1 == DelSucc(g, id, succ)
         IN  IF ~g1.directed
             THEN DelSucc(DelPred(g1, id, succ), succ, id)
             ELSE g1

\* RemoveEdge that deletes the reciprocal entries of a directed graph too
RemoveEdge_BothWays(g, id, succ) ==
    IF id \notin DOMAIN g.successors THEN g
    ELSE IF succ \notin DOMAIN g.successors THEN g
    ELSE DelSucc(DelPred(DelPred(DelSucc(g, id, succ), succ, id), id, succ), succ, id)

\* RemoveEdge that takes the reverse edge when the edge itself is not stored
RemoveEdge_EitherWay(g, id, succ) ==
    IF id \notin DOMAIN g.successors THEN g
    ELSE IF succ \notin DOMAIN g.successors THEN g
    ELSE IF succ \notin DOMAIN g.successors[id]
         THEN DelPred(DelSucc(g, succ, id), id, succ)
    ELSE LET g1 == DelPred(DelSucc(g, id, succ), succ, id)
         IN  IF ~g1.directed
             THEN DelSucc(DelPred(g1, id, succ), succ, id)
             ELSE g1

RemoveEdge(g, id, succ) ==
    IF id \notin DOMAIN g.successors THEN g
    ELSE IF succ \notin DOMAIN g.successors THEN g
    ELSE LET g1 == DelPred(DelSucc(g, id, succ), succ, id)
         IN  IF ~g1.directed
             THEN DelSucc(DelPred(g1, id, succ), succ, id)
             ELSE g1

\* EmptyGraph that leaves the node lookup map as it is
EmptyGraph_KeepsLookup(g) ==
    IF MapLen(g.successors) = 0 THEN g
    ELSE [g EXCEPT !.successors = EmptyMap, !.predecessors = EmptyMap]

EmptyGraph(g) ==
    IF MapLen(g.successors) = 0 THEN g
    ELSE [g EXCEPT !.successors = EmptyMap, !.predecessors = EmptyMap,
                   !.nodeMap = [isNil |-> FALSE, m |-> EmptyMap]]

\* SetDirected without the check that the graph is empty
SetDirected_NoGuard(g, d) == [g EXCEPT !.directed = d]

SetDirected(g, d) ==
    IF MapLen(g.successors) > 0 THEN g
    ELSE [g EXCEPT !.directed = d]

\* ------------------------------------------------------------ TileGraph
\* A grid of rows x cols tiles, each passable or not; the node of the tile
\* at (row, col) has the ID row*cols + col.  tiles maps the ID to passable.

NewTileGraph(rows, cols, allPassable) ==
    [rows |-> rows, cols |-> cols, tiles |-> [id \in 0..(rows * cols - 1) |-> allPassable]]

\* The glyph of a tile that is not passable; a passable tile is a space
WallGlyph == "▀"

SpaceGlyph == " "

\* GenerateTileGraph on a text given as its lines, each line as its glyphs:
\* the graph, or ok = FALSE for lines of different length or a glyph that is
\* neither of the two
GenerateTileGraph(lines) ==
    LET rows == Len(lines)
        cols == IF rows = 0 THEN 0 ELSE Len(lines[1])
        wellFormed == /\ \A r \in 1..rows : Len(lines[r]) = cols
                      /\ \A r \in 1..rows : \A c \in 1..Len(lines[r]) :
                             lines[r][c] \in {WallGlyph, SpaceGlyph}
    IN  IF ~wellFormed THEN [ok |-> FALSE, graph |-> NewTileGraph(0, 0, FALSE)]
        ELSE [ok |-> TRUE,
              graph |-> [rows |-> rows, cols |-> cols,
                         tiles |-> [id \in 0..(rows * cols - 1) |->
                                       lines[(id \div cols) + 1][(id % cols) + 1] = SpaceGlyph]]]

\* IDToCoords that divides by the number of rows
IDToCoords_ByRows(tg, id) == <<id \div tg.rows, id % tg.rows>>

CoordsToID(tg, row, col) == row * tg.cols + col

IDToCoords(tg, id) == <<id \div tg.cols, id % tg.cols>>

InGrid(tg, row, col) == row \in 0..(tg.rows - 1) /\ col \in 0..(tg.cols - 1)

TileIDs(tg) == 0..(tg.rows * tg.cols - 1)

\* Coordinates outside the grid are rejected: the grid stays as it is
SetPassability(tg, row, col, passable) ==
    IF ~InGrid(tg, row, col) THEN tg
    ELSE [tg EXCEPT !.tiles[CoordsToID(tg, row, col)] = passable]

\* The four orthogonal neighbours of (row, col): up, down, left, right
Neighbours(row, col) ==
    << <<row - 1, col>>, <<row + 1, col>>, <<row, col - 1>>, <<row, col + 1>> >>

RECURSIVE PassableOf(_, _, _)
PassableOf(tg, cells, i) ==
    IF i > Len(cells) THEN <<>>
    ELSE LET row == cells[i][1]
             col == cells[i][2]
             rest == PassableOf(tg, cells, i + 1)
         IN  IF InGrid(tg, row, col) /\ tg.tiles[CoordsToID(tg, row, col)]
             THEN <<CoordsToID(tg, row, col)>> \o rest
             ELSE rest

\* TileSuccessors that does not ask whether the tile itself is passable
TileSuccessors_FromWall(tg, id) ==
    IF id \notin TileIDs(tg) THEN <<>>
    ELSE LET rc == IDToCoords(tg, id)
         IN  PassableOf(tg, Neighbours(rc[1], rc[2]), 1)

\* TileGraph.Successors: none for a tile that is not passable, else the
\* neighbours in the grid that are passable
TileSuccessors(tg, id) ==
    IF id \notin TileIDs(tg) THEN <<>>
    ELSE IF ~tg.tiles[id] THEN <<>>
    ELSE LET rc == IDToCoords(tg, id)
         IN  PassableOf(tg, Neighbours(rc[1], rc[2]), 1)

TileIsSuccessor(tg, id, succ) ==
    \E i \in 1..Len(TileSuccessors(tg, id)) : TileSuccessors(tg, id)[i] = succ

\* TileGraph.Predecessors: the tiles that have id among their successors
TilePredecessors(tg, id) ==
    IF id \notin TileIDs(tg) THEN <<>>
    ELSE LET rc == IDToCoords(tg, id)
             around == Neighbours(rc[1], rc[2])
             from == {i \in 1..4 :
                         /\ InGrid(tg, around[i][1], around[i][2])
                         /\ TileIsSuccessor(tg, CoordsToID(tg, around[i][1], around[i][2]), id)}
         IN  [k \in 1..Cardinality(from) |->
                 LET i == CHOOSE j \in from : Cardinality({x \in from : x < j}) = k - 1
                 IN  CoordsToID(tg, around[i][1], around[i][2])]

TileDegree(tg, id) == Len(TileSuccessors(tg, id)) + Len(TilePredecessors(tg, id))

\* The cost of a step between two adjacent passable tiles
TileCost(tg, a, b) == 1

\* IsPath: every consecutive pair of the sequence is an edge of the graph
IsPath(path, tg) ==
    \A i \in 1..(Len(path) - 1) : TileIsSuccessor(tg, path[i], path[i + 1])

\* ------------------------------------------------------------ AStar
\* The search with heuristic and cost function nil: the heuristic is 0 and
\* the cost is the graph's.  open holds [node, f, seq]: f the estimated total
\* cost, seq the insertion number that breaks ties.

NullHeuristic(node, goal) == 0

\* The member of the open set with the lowest f, the first inserted of those
Lowest(open) ==
    CHOOSE e \in open : \A o \in open : e.f < o.f \/ (e.f = o.f /\ e.seq <= o.seq)

\* From goal back along the back-pointers to start, in start -> goal order
RECURSIVE ReconstructPath(_, _, _)
ReconstructPath(cameFrom, start, node) ==
    IF node = start THEN <<start>>
    ELSE Append(ReconstructPath(cameFrom, start, cameFrom[node]), node)

\* Relax that leaves the cost of the edge out of the cost of the path
Relax_NoEdgeCost(tg, goal, closed, cur, succ, st) ==
    IF succ \in closed THEN st
    ELSE LET tentative == st.gScore[cur]
         IN  IF succ \in DOMAIN st.gScore /\ tentative >= st.gScore[succ] THEN st
             ELSE [open |-> {e \in st.open : e.node # succ}
                              \cup {[node |-> succ,
                                     f |-> tentative + NullHeuristic(succ, goal),
                                     seq |-> st.seq]},
                   gScore |-> Put(st.gScore, succ, tentative),
                   cameFrom |-> Put(st.cameFrom, succ, cur),
                   seq |-> st.seq + 1]

\* One successor of the node being expanded: st holds open, gScore, cameFrom, seq
Relax(tg, goal, closed, cur, succ, st) ==
    IF succ \in closed THEN st
    ELSE LET tentative == st.gScore[cur] + TileCost(tg, cur, succ)
         IN  IF succ \in DOMAIN st.gScore /\ tentative >= st.gScore[succ] THEN st
             ELSE [open |-> {e \in st.open : e.node # succ}
                              \cup {[node |-> succ,
                                     f |-> tentative + NullHeuristic(succ, goal),
                                     seq |-> st.seq]},
                   gScore |-> Put(st.gScore, succ, tentative),
                   cameFrom |-> Put(st.cameFrom, succ, cur),
                   seq |-> st.seq + 1]

RECURSIVE RelaxAll(_, _, _, _, _, _, _)
RelaxAll(tg, goal, closed, cur, succs, i, st) ==
    IF i > Len(succs) THEN st
    ELSE RelaxAll(tg, goal, closed, cur, succs, i + 1,
                  Relax(tg, goal, closed, cur, succs[i], st))

RECURSIVE AStarLoop(_, _, _, _, _, _)
AStarLoop(tg, start, goal, closed, st, expanded) ==
    IF st.open = {}
    THEN [found |-> FALSE, path |-> <<>>, cost |-> 0, nodesExpanded |-> expanded]
    ELSE LET cur == Lowest(st.open)
         IN  IF cur.node = goal
             THEN [found |-> TRUE,
                   path |-> ReconstructPath(st.cameFrom, start, goal),
                   cost |-> st.gScore[goal],
                   nodesExpanded |-> expanded]
             ELSE AStarLoop(tg, start, goal, closed \cup {cur.node},
                            RelaxAll(tg, goal, closed \cup {cur.node}, cur.node,
                                     TileSuccessors(tg, cur.node), 1,
                                     [st EXCEPT !.open = @ \ {cur}]),
                            expanded + 1)

AStar(start, goal, tg) ==
    AStarLoop(tg, start, goal, {},
              [open |-> {[node |-> start, f |-> NullHeuristic(start, goal), seq |-> 0]},
               gScore |-> Put(EmptyMap, start, 0),
               cameFrom |-> EmptyMap,
               seq |-> 1],
              0)

\* ------------------------------------------------------------ the state machine

\* No tile graph is in use, no search has run
NoTileGraph == NewTileGraph(0, 0, FALSE)

NoResult == [found |-> FALSE, path |-> <<>>, cost |-> 0, nodesExpanded |-> 0]


\* NewGonumGraph(d), NewPreAllocatedGonumGraph(d, n): the successor and
\* predecessor maps are made, nodeMap is left nil
NewGonumGraph(d) ==
    [successors |-> EmptyMap, predecessors |-> EmptyMap,
     nodeMap |-> [isNil |-> TRUE, m |-> EmptyMap], directed |-> d, fault |-> FALSE]

\* A graph whose three maps are all made, as EmptyGraph's assignments leave them
AllocatedGraph(d) ==
    [NewGonumGraph(d) EXCEPT !.nodeMap = [isNil |-> FALSE, m |-> EmptyMap]]

\* The call that led to the current state: the method, its arguments (those
\* the method does not take are 0, <<>> or FALSE)
Call(op, n, s, succs, cost, d) ==
    [op |-> op, n |-> n, s |-> s, succs |-> succs, cost |-> cost, d |-> d]

Start(g) ==
    /\ successors = g.successors
    /\ predecessors = g.predecessors
    /\ nodeMap = g.nodeMap
    /\ directed = g.directed
    /\ fault = g.fault
    /\ last = Call("New", 0, 0, <<>>, 0, g.directed)
    /\ pre = g
    /\ steps = 0
    /\ tileGraph = NoTileGraph
    /\ result = NoResult

\* A method call on the graph: g is the graph it leaves.  A panic ends the
\* program, so nothing is called after one.
Step(call, g) ==
    /\ ~fault
    /\ steps < MaxOps
    /\ successors' = g.successors
    /\ predecessors' = g.predecessors
    /\ nodeMap' = g.nodeMap
    /\ directed' = g.directed
    /\ fault' = g.fault
    /\ last' = call
    /\ pre' = graph
    /\ steps' = steps + 1
    /\ UNCHANGED <<tileGraph, result>>

DoNewNode ==
    \E succs \in SuccLists :
        /\ NewNodeID(graph) \in NodeIDs
        /\ Step(Call("NewNode", NewNodeID(graph), 0, succs, 0, FALSE),
                NewNode(graph, succs))

DoAddNode ==
    \E n \in NodeIDs, succs \in SuccLists :
        Step(Call("AddNode", n, 0, succs, 0, FALSE), AddNode(graph, n, succs))

DoAddEdge ==
    \E n, s \in NodeIDs :
        Step(Call("AddEdge", n, s, <<>>, 0, FALSE), AddEdge(graph, n, s))

DoSetEdgeCost ==
    \E n, s \in NodeIDs, c \in CostValues :
        Step(Call("SetEdgeCost", n, s, <<>>, c, FALSE), SetEdgeCost(graph, n, s, c))

DoRemoveNode ==
    \E n \in NodeIDs :
        Step(Call("RemoveNode", n, 0, <<>>, 0, FALSE), RemoveNode(graph, n))

DoRemoveEdge ==
    \E n, s \in NodeIDs :
        Step(Call("RemoveEdge", n, s, <<>>, 0, FALSE), RemoveEdge(graph, n, s))

DoEmptyGraph ==
    Step(Call("EmptyGraph", 0, 0, <<>>, 0, FALSE), EmptyGraph(graph))

DoSetDirected ==
    \E d \in BOOLEAN :
        Step(Call("SetDirected", 0, 0, <<>>, 0, d), SetDirected(graph, d))

Next ==
    \/ DoNewNode
    \/ DoAddNode
    \/ DoAddEdge
    \/ DoSetEdgeCost
    \/ DoRemoveNode
    \/ DoRemoveEdge
    \/ DoEmptyGraph
    \/ DoSetDirected

\* The program: a graph from a constructor
Init == \E d \in BOOLEAN : Start(NewGonumGraph(d))

Spec == Init /\ [][Next]_vars

\* The methods on any graph value: nodeMap nil as the constructors leave it,
\* or made.  Every behaviour of Spec is one of SpecAllocated.
InitAllocated ==
    \E d \in BOOLEAN : Start(NewGonumGraph(d)) \/ Start(AllocatedGraph(d))

SpecAllocated == InitAllocated /\ [][Next]_vars

\* The methods with a negative node ID among the arguments, on a graph whose
\* nodeMap has been made
NegativeIDs == {-1}

DoAddNodeNegative ==
    \E n \in NegativeIDs, succs \in SuccLists :
        Step(Call("AddNode", n, 0, succs, 0, FALSE), AddNode(graph, n, succs))

NextNegative == Next \/ DoAddNodeNegative

InitNegative == \E d \in BOOLEAN : Start(AllocatedGraph(d))

SpecNegative == InitNegative /\ [][NextNegative]_vars

\* ------------------------------------------------------------ tile graph runs
\* A program that builds a tile graph, changes tiles and searches it.  The
\* general graph is not in use; result is what the last call returned.

TileStart(tg, allPassable) ==
    /\ successors = NewGonumGraph(FALSE).successors
    /\ predecessors = NewGonumGraph(FALSE).predecessors
    /\ nodeMap = NewGonumGraph(FALSE).nodeMap
    /\ directed = FALSE
    /\ fault = FALSE
    /\ last = Call("NewTileGraph", tg.rows, tg.cols, <<>>, 0, allPassable)
    /\ pre = NewGonumGraph(FALSE)
    /\ steps = 0
    /\ tileGraph = tg
    /\ result = NoResult

\* AStar leaves the graph as it found it, so a call after it leads only to
\* states that are reached without it: the search is the last call of a run
TileStep(call, tg, res) ==
    /\ last.op # "AStar"
    /\ last' = call
    /\ tileGraph' = tg
    /\ result' = res
    /\ UNCHANGED <<successors, predecessors, nodeMap, directed, fault, pre, steps>>

\* The row and the column one past the end of the grid are tried as well
DoSetPassability ==
    \E row \in 0..tileGraph.rows, col \in 0..tileGraph.cols, passable \in BOOLEAN :
        TileStep(Call("SetPassability", row, col, <<>>, 0, passable),
                 SetPassability(tileGraph, row, col, passable), NoResult)

DoAStar ==
    \E start \in TileIDs(tileGraph), goal \in TileIDs(tileGraph) :
        TileStep(Call("AStar", start, goal, <<>>, 0, FALSE),
                 tileGraph, AStar(start, goal, tileGraph))

NextTile == DoSetPassability \/ DoAStar

InitTile ==
    \E rows \in 1..MaxDim, cols \in 1..MaxDim, allPassable \in BOOLEAN :
        TileStart(NewTileGraph(rows, cols, allPassable), allPassable)

SpecTile == InitTile /\ [][NextTile]_vars

\* ------------------------------------------------------------ properties
\* last is the call that led to the current state, pre the graph it was
\* made on, graph the graph it left.

\* The entry a -> b is the same in g and h: stored or not in both maps, at
\* the same cost
SameEdge(g, h, a, b) ==
    /\ (b \in DOMAIN Inner(g.successors, a)) = (b \in DOMAIN Inner(h.successors, a))
    /\ (a \in DOMAIN Inner(g.predecessors, b)) = (a \in DOMAIN Inner(h.predecessors, b))
    /\ Cost(g, a, b) = Cost(h, a, b)
    /\ (a \in DOMAIN Inner(g.predecessors, b) /\ a \in DOMAIN Inner(h.predecessors, b))
           => g.predecessors[b][a] = h.predecessors[b][a]

\* g and h hold the same nodes
SameNodes(g, h) ==
    /\ DOMAIN g.successors = DOMAIN h.successors
    /\ DOMAIN g.predecessors = DOMAIN h.predecessors
    /\ NodeList(g) = NodeList(h)

\* C1: the successor map, the predecessor map and the node lookup map have
\* the same keys, so NodeExists(n) is true exactly for the nodes of NodeList().
C1_SameKeys ==
    /\ DOMAIN successors = DOMAIN predecessors
    /\ DOMAIN successors = DOMAIN nodeMap.m
    /\ \A n \in NodeIDs : NodeExists(graph, n) <=> n \in NodeList(graph)

\* C1 witness: an AddEdge call has created its tail, a node the graph did not hold.
C1_Witness ==
    /\ last.op = "AddEdge"
    /\ ~NodeExists(pre, last.s)
    /\ NodeExists(graph, last.s)
    /\ MapLen(successors) = 2

\* C2: in an undirected graph every stored entry successors[a][b] = c has
\* its mirror successors[b][a] = c and the matching predecessor entries, so
\* IsSuccessor(a,b) = IsSuccessor(b,a) and Cost(a,b) = Cost(b,a).
C2_UndirectedSymmetry ==
    ~directed =>
        \A a, b \in NodeIDs :
            /\ IsSuccessor(graph, a, b) = IsSuccessor(graph, b, a)
            /\ Cost(graph, a, b) = Cost(graph, b, a)
            /\ IsSuccessor(graph, a, b) =>
                   /\ IsPredecessor(graph, b, a)
                   /\ IsPredecessor(graph, a, b)
                   /\ predecessors[b][a] = successors[a][b]
                   /\ predecessors[a][b] = successors[a][b]

\* C2 witness: an undirected graph in which SetEdgeCost has given an edge
\* between two different nodes a cost other than the default.
C2_Witness ==
    /\ ~directed
    /\ last.op = "SetEdgeCost"
    /\ last.n # last.s
    /\ IsSuccessor(graph, last.n, last.s)
    /\ Cost(graph, last.n, last.s) = 2
    /\ Cost(pre, last.n, last.s) = DefaultCost

AddNodePost ==
    /\ NodeExists(graph, last.n)
    /\ last.n \in NodeList(graph)
    /\ \A i \in 1..Len(last.succs) :
           LET s == last.succs[i]
           IN  /\ NodeExists(graph, s)
               /\ s \in NodeList(graph)
               /\ IsSuccessor(graph, last.n, s)
               /\ IsPredecessor(graph, s, last.n)
               /\ Cost(graph, last.n, s) = DefaultCost
               /\ ~directed => /\ IsSuccessor(graph, s, last.n)
                               /\ Cost(graph, s, last.n) = DefaultCost

\* C4: AddNode(n, succs) with n not yet in the graph registers n and every
\* node of succs, and creates each edge n -> s at cost 1.0 (and its mirror
\* when the graph is undirected).
C4_AddNodeRegisters ==
    (last.op = "AddNode" /\ ~NodeExists(pre, last.n)) => AddNodePost

\* The same on a graph whose nodeMap has been made: there AddNode keeps the
\* promise, so C4 fails through the nil nodeMap alone.
AddNodeRegistersOnceAllocated ==
    (last.op = "AddNode" /\ ~NodeExists(pre, last.n) /\ ~pre.nodeMap.isNil)
        => (AddNodePost /\ ~fault)

\* C5: AddEdge(a -> b) with the head a in the graph creates the tail b when
\* it is absent and stores the edge at cost 1.0, also over an older cost, with
\* its mirror when the graph is undirected; no other node or edge changes.
C5_AddEdgeSetsEdge ==
    (last.op = "AddEdge" /\ NodeExists(pre, last.n)) =>
        LET a == last.n
            b == last.s
        IN  /\ ~fault
            /\ IsSuccessor(graph, a, b)
            /\ IsPredecessor(graph, b, a)
            /\ Cost(graph, a, b) = DefaultCost
            /\ ~directed => /\ IsSuccessor(graph, b, a)
                            /\ Cost(graph, b, a) = DefaultCost
            /\ DOMAIN successors = DOMAIN pre.successors \cup {b}
            /\ DOMAIN predecessors = DOMAIN pre.predecessors \cup {b}
            /\ NodeList(graph) = NodeList(pre) \cup {b}
            /\ directed = pre.directed
            /\ \A x, y \in NodeIDs :
                   (<<x, y>> # <<a, b>> /\ (directed \/ <<x, y>> # <<b, a>>))
                       => SameEdge(pre, graph, x, y)

\* C5 witness: AddEdge on an edge that was stored at another cost.
C5_Witness ==
    /\ last.op = "AddEdge"
    /\ IsSuccessor(pre, last.n, last.s)
    /\ Cost(pre, last.n, last.s) # DefaultCost
    /\ Cost(graph, last.n, last.s) = DefaultCost

\* C5, second case reached: AddEdge has created its tail.
C5_WitnessNewTail ==
    /\ last.op = "AddEdge"
    /\ NodeExists(pre, last.n)
    /\ ~NodeExists(pre, last.s)
    /\ NodeExists(graph, last.s)

\* C6: RemoveEdge(a -> b) with both endpoints in the graph removes that edge
\* (and its mirror when the graph is undirected); in a directed graph the
\* reverse edge b -> a stays as it was; the nodes and all other edges are
\* unchanged.
C6_RemoveEdgeRemovesOne ==
    (last.op = "RemoveEdge" /\ NodeExists(pre, last.n) /\ NodeExists(pre, last.s)) =>
        LET a == last.n
            b == last.s
        IN  /\ ~IsSuccessor(graph, a, b)
            /\ ~IsPredecessor(graph, b, a)
            /\ ~directed => /\ ~IsSuccessor(graph, b, a)
                            /\ ~IsPredecessor(graph, a, b)
            /\ SameNodes(pre, graph)
            /\ directed = pre.directed
            /\ \A x, y \in NodeIDs :
                   (<<x, y>> # <<a, b>> /\ (directed \/ <<x, y>> # <<b, a>>))
                       => SameEdge(pre, graph, x, y)

\* C6 witness: a directed graph held a -> b and b -> a at a cost of its own,
\* and RemoveEdge(a -> b) has run.
C6_Witness ==
    /\ last.op = "RemoveEdge"
    /\ directed
    /\ last.n # last.s
    /\ IsSuccessor(pre, last.n, last.s)
    /\ IsSuccessor(pre, last.s, last.n)
    /\ IsSuccessor(graph, last.s, last.n)

\* C6, undirected case reached: the edge and its mirror are gone.
C6_WitnessUndirected ==
    /\ last.op = "RemoveEdge"
    /\ ~directed
    /\ last.n # last.s
    /\ IsSuccessor(pre, last.n, last.s)
    /\ IsSuccessor(pre, last.s, last.n)
    /\ ~IsSuccessor(graph, last.s, last.n)

\* C7: SetEdgeCost(a -> b, c) does nothing unless a is in the graph and the
\* edge a -> b is stored; then Cost(a,b) = c (and Cost(b,a) = c when the
\* graph is undirected), no node or edge appears or disappears, and no other
\* edge changes its cost.
C7_SetEdgeCostInPlace ==
    last.op = "SetEdgeCost" =>
        LET a == last.n
            b == last.s
        IN  IF NodeExists(pre, a) /\ IsSuccessor(pre, a, b)
            THEN /\ ~fault
                 /\ Cost(graph, a, b) = last.cost
                 /\ predecessors[b][a] = last.cost
                 /\ ~directed => /\ Cost(graph, b, a) = last.cost
                                 /\ predecessors[a][b] = last.cost
                 /\ SameNodes(pre, graph)
                 /\ directed = pre.directed
                 /\ \A x \in NodeIDs :
                        /\ DOMAIN Inner(successors, x) = DOMAIN Inner(pre.successors, x)
                        /\ DOMAIN Inner(predecessors, x) = DOMAIN Inner(pre.predecessors, x)
                 /\ \A x, y \in NodeIDs :
                        (<<x, y>> # <<a, b>> /\ (directed \/ <<x, y>> # <<b, a>>))
                            => SameEdge(pre, graph, x, y)
            ELSE graph = pre

\* C7 witness: SetEdgeCost has changed the cost of a stored edge.
C7_Witness ==
    /\ last.op = "SetEdgeCost"
    /\ IsSuccessor(pre, last.n, last.s)
    /\ Cost(pre, last.n, last.s) # last.cost
    /\ Cost(graph, last.n, last.s) = last.cost

\* C7, the no-op reached: SetEdgeCost on an edge that is not stored, between
\* two nodes of the graph.
C7_WitnessNoEdge ==
    /\ last.op = "SetEdgeCost"
    /\ NodeExists(pre, last.n)
    /\ NodeExists(pre, last.s)
    /\ ~IsSuccessor(pre, last.n, last.s)
    /\ last.cost # 0

\* C8: AddNode(n, succs) on a graph that holds n changes nothing, whatever
\* succs names; so an AddNode call repeated with the same arguments leaves
\* the graph the first call left.
C8_AddNodeIdempotent ==
    /\ (last.op = "AddNode" /\ NodeExists(pre, last.n)) => graph = pre
    /\ (last.op = "AddNode" /\ ~fault) => AddNode(graph, last.n, last.succs) = graph

\* C8 witness: AddNode on a node of the graph, naming a successor that is
\* neither a node of the graph nor a successor of that node.
C8_Witness ==
    /\ last.op = "AddNode"
    /\ NodeExists(pre, last.n)
    /\ Len(last.succs) > 0
    /\ ~NodeExists(pre, last.succs[1])

\* C9: AddEdge with a head that is not in the graph, RemoveNode of a node
\* that is not in the graph, and RemoveEdge with a head or tail that is not
\* in the graph or with an edge that is not stored, change nothing: nodes,
\* edges, costs and the directed flag stay.
C9_AbsentIsNoOp ==
    /\ (last.op = "AddEdge" /\ ~NodeExists(pre, last.n)) => graph = pre
    /\ (last.op = "RemoveNode" /\ ~NodeExists(pre, last.n)) => graph = pre
    /\ (last.op = "RemoveEdge" /\ (\/ ~NodeExists(pre, last.n)
                                   \/ ~NodeExists(pre, last.s)
                                   \/ ~IsSuccessor(pre, last.n, last.s)))
           => graph = pre

\* C9 witness: RemoveEdge of an edge that is not stored, between two nodes
\* of a graph that stores the reverse edge.
C9_Witness ==
    /\ last.op = "RemoveEdge"
    /\ NodeExists(pre, last.n)
    /\ NodeExists(pre, last.s)
    /\ ~IsSuccessor(pre, last.n, last.s)
    /\ IsSuccessor(pre, last.s, last.n)

\* C9, AddEdge case reached: the head is absent from a graph that has nodes.
C9_WitnessAddEdge ==
    /\ last.op = "AddEdge"
    /\ ~NodeExists(pre, last.n)
    /\ MapLen(pre.successors) > 0

\* C9, RemoveNode case reached: the node is absent from a graph that has
\* a node with an edge.
C9_WitnessRemoveNode ==
    /\ last.op = "RemoveNode"
    /\ ~NodeExists(pre, last.n)
    /\ \E x \in NodeIDs : IsSuccessor(pre, x, x)

\* C10: in every step the directed flag changes only by SetDirected called on
\* a graph without nodes; SetDirected on a graph with a node changes nothing.
C10_DirectedFixed ==
    [][/\ directed' # directed =>
              /\ last'.op = "SetDirected"
              /\ MapLen(successors) = 0
              /\ directed' = last'.d
       /\ (last'.op = "SetDirected" /\ MapLen(successors) > 0) =>
              UNCHANGED <<successors, predecessors, nodeMap, directed, fault>>]_vars

\* C10 witness: SetDirected has changed the flag of a graph without nodes
\* that had nodes before (EmptyGraph emptied it).
C10_Witness ==
    /\ last.op = "SetDirected"
    /\ directed # pre.directed
    /\ ~nodeMap.isNil
    /\ steps = MaxOps

\* C10, the no-op reached: SetDirected asked for the other value on a graph
\* with a node.
C10_WitnessFixed ==
    /\ last.op = "SetDirected"
    /\ MapLen(pre.successors) > 0
    /\ last.d # pre.directed
    /\ directed = pre.directed

\* The nodes of a result slice, and whether it holds a nil entry
SliceIDs(sl) == {sl[i].id : i \in {j \in 1..Len(sl) : ~sl[j].isNil}}

HasNil(sl) == \E i \in 1..Len(sl) : sl[i].isNil

SuccessorsAfterNils ==
    \A n \in NodeIDs :
        LET sl == Successors(graph, n)
            out == {b \in NodeIDs : IsSuccessor(graph, n, b)}
        IN  /\ SliceIDs(sl) = out
            /\ Len(sl) = 2 * Cardinality(out)
            /\ \A i \in 1..Len(sl) : sl[i].isNil <=> i <= Cardinality(out)

\* C12: Degree(n) is the number of stored successor entries of n plus the
\* number of stored predecessor entries of n, 0 for a node not in the graph;
\* a new undirected edge a-b adds 2 to the degree of a and 2 to that of b.
C12_DegreeCountsEntries ==
    /\ \A n \in NodeIDs :
           Degree(graph, n) =
               IF NodeExists(graph, n)
               THEN Cardinality({b \in NodeIDs : IsSuccessor(graph, n, b)})
                    + Cardinality({b \in NodeIDs : IsPredecessor(graph, n, b)})
               ELSE 0
    /\ (/\ last.op = "AddEdge"
        /\ ~directed
        /\ last.n # last.s
        /\ NodeExists(pre, last.n)
        /\ ~IsSuccessor(pre, last.n, last.s))
           => /\ Degree(graph, last.n) = Degree(pre, last.n) + 2
              /\ Degree(graph, last.s) = Degree(pre, last.s) + 2

\* C12 witness: a directed graph with an edge between two nodes, so that a
\* node's out-degree and in-degree differ.
C12_Witness ==
    /\ directed
    /\ \E a, b \in NodeIDs :
           /\ a # b
           /\ IsSuccessor(graph, a, b)
           /\ ~IsSuccessor(graph, b, a)
           /\ Degree(graph, a) = 1
           /\ Degree(graph, b) = 1

\* C12, undirected case reached: AddEdge has stored a new undirected edge.
C12_WitnessUndirected ==
    /\ last.op = "AddEdge"
    /\ ~directed
    /\ last.n # last.s
    /\ NodeExists(pre, last.n)
    /\ ~IsSuccessor(pre, last.n, last.s)
    /\ Degree(graph, last.n) = 2

\* C13: after EmptyGraph the graph has no node and no edge: NodeList() and
\* EdgeList() are empty, NodeExists is false and Cost is 0 everywhere, the
\* directed flag is as before, and a SetDirected that follows takes effect.
C13_EmptyGraphDiscards ==
    last.op = "EmptyGraph" =>
        /\ NodeList(graph) = {}
        /\ EdgeList(graph) = {}
        /\ \A n \in NodeIDs : ~NodeExists(graph, n)
        /\ \A a, b \in NodeIDs : Cost(graph, a, b) = 0
        /\ directed = pre.directed
        /\ ~fault
        /\ \A d \in BOOLEAN : IsDirected(SetDirected(graph, d)) = d

\* C13 witness: EmptyGraph on a graph that held two nodes and an edge.
C13_Witness ==
    /\ last.op = "EmptyGraph"
    /\ MapLen(pre.successors) = 2
    /\ EdgeList(pre) # {}

\* C17: the successor map and the predecessor map hold the same edges at the
\* same costs: IsSuccessor(a,b) exactly when IsPredecessor(b,a), and
\* successors[a][b] = predecessors[b][a].
C17_MapsAgree ==
    \A a, b \in NodeIDs :
        /\ IsSuccessor(graph, a, b) <=> IsPredecessor(graph, b, a)
        /\ IsSuccessor(graph, a, b) => successors[a][b] = predecessors[b][a]
        /\ (a \in DOMAIN Inner(predecessors, b)) => IsSuccessor(graph, a, b)

\* C17 witness: a directed graph in which SetEdgeCost has given the edge
\* between two different nodes a cost of its own, stored in both maps.
C17_Witness ==
    /\ directed
    /\ last.op = "SetEdgeCost"
    /\ last.n # last.s
    /\ last.cost = 2
    /\ IsSuccessor(graph, last.n, last.s)
    /\ ~IsSuccessor(graph, last.s, last.n)
    /\ predecessors[last.s][last.n] = 2

\* C17, removal reached: RemoveEdge has taken a stored edge of a directed graph.
C17_WitnessRemoved ==
    /\ directed
    /\ last.op = "RemoveEdge"
    /\ IsSuccessor(pre, last.n, last.s)
    /\ ~IsPredecessor(graph, last.s, last.n)

AdjacentIsPredecessor ==
    \A a, b \in NodeIDs : IsAdjacent(graph, a, b) = IsPredecessor(graph, a, b)

NewNodeFreshWithoutNegatives ==
    (/\ last.op = "NewNode"
     /\ ~pre.nodeMap.isNil
     /\ \A n \in NodeList(pre) : n >= 0)
        => /\ ~NodeExists(pre, last.n)
           /\ NodeExists(graph, last.n)
           /\ \A i \in 1..Len(last.succs) : IsSuccessor(graph, last.n, last.succs[i])

\* C20: no sequence of method calls on a graph from a constructor panics:
\* every map is made before it is written to.
C20_NoFault == ~fault

\* The grid of TestTileGraph and TestSimpleAStar, line by line
TestTemplate ==
    << <<WallGlyph, SpaceGlyph, SpaceGlyph, WallGlyph>>,
       <<WallGlyph, WallGlyph, SpaceGlyph, WallGlyph>>,
       <<WallGlyph, WallGlyph, SpaceGlyph, WallGlyph>>,
       <<WallGlyph, WallGlyph, SpaceGlyph, WallGlyph>> >>

TestGraph == GenerateTileGraph(TestTemplate).graph

\* C15: CoordsToID(row, col) is row*cols + col, and IDToCoords is its exact
\* inverse: IDToCoords(CoordsToID(row, col)) = (row, col) for every cell of
\* the grid and CoordsToID(IDToCoords(id)) = id for every id 0..rows*cols-1;
\* on the 4x4 grid of the test the corners have the IDs 0, 3, 12 and 15.
C15_CoordsBijection ==
    /\ \A row \in 0..(tileGraph.rows - 1), col \in 0..(tileGraph.cols - 1) :
          /\ CoordsToID(tileGraph, row, col) = row * tileGraph.cols + col
          /\ CoordsToID(tileGraph, row, col) \in TileIDs(tileGraph)
          /\ IDToCoords(tileGraph, CoordsToID(tileGraph, row, col)) = <<row, col>>
    /\ \A id \in TileIDs(tileGraph) :
          /\ InGrid(tileGraph, IDToCoords(tileGraph, id)[1], IDToCoords(tileGraph, id)[2])
          /\ CoordsToID(tileGraph, IDToCoords(tileGraph, id)[1], IDToCoords(tileGraph, id)[2]) = id
    /\ CoordsToID(TestGraph, 0, 0) = 0 /\ CoordsToID(TestGraph, 3, 3) = 15
    /\ CoordsToID(TestGraph, 0, 3) = 3 /\ CoordsToID(TestGraph, 3, 0) = 12
    /\ IDToCoords(TestGraph, 0) = <<0, 0>> /\ IDToCoords(TestGraph, 15) = <<3, 3>>
    /\ IDToCoords(TestGraph, 3) = <<0, 3>> /\ IDToCoords(TestGraph, 12) = <<3, 0>>

\* The last tile of a grid with more columns than rows was set through its
\* coordinates
C15_Witness ==
    /\ tileGraph.rows < tileGraph.cols
    /\ last.op = "SetPassability"
    /\ last.n = tileGraph.rows - 1 /\ last.s = tileGraph.cols - 1
    /\ tileGraph.tiles[tileGraph.rows * tileGraph.cols - 1] = last.d
    /\ tileGraph.tiles[0] # last.d

\* The same with more rows than columns
C15_WitnessTall ==
    /\ tileGraph.rows > tileGraph.cols
    /\ last.op = "SetPassability"
    /\ last.n = tileGraph.rows - 1 /\ last.s = tileGraph.cols - 1
    /\ tileGraph.tiles[tileGraph.rows * tileGraph.cols - 1] = last.d
    /\ tileGraph.tiles[0] # last.d

\* The IDs in a sequence of node IDs
TileSet(ids) == {ids[i] : i \in 1..Len(ids)}

Abs(x) == IF x < 0 THEN -x ELSE x

\* The passable tiles of the grid one step up, down, left or right of id
PassableNeighbours(tg, id) ==
    {m \in TileIDs(tg) :
        /\ tg.tiles[m]
        /\ Abs((m \div tg.cols) - (id \div tg.cols)) + Abs((m % tg.cols) - (id % tg.cols)) = 1}

\* The grid with the tile of this ID set through its coordinates
WithTile(tg, id, passable) ==
    SetPassability(tg, IDToCoords(tg, id)[1], IDToCoords(tg, id)[2], passable)

\* C16: after any sequence of SetPassability calls an impassable tile has no
\* successors and degree 0 whatever its neighbours are; a passable tile's
\* successors are exactly its passable orthogonal neighbours in the grid and
\* its degree is twice their number; setting a passable tile impassable
\* brings its degree to 0 and setting it passable again restores the degree
\* it had.  On the 4x4 grid of the test tile 0 has no successors, tile 2 has
\* the successors 1 and 6, and the degrees of 2, 1 and 0 are 4, 2 and 0.
C16_TilePassability ==
    /\ \A id \in TileIDs(tileGraph) :
          /\ ~tileGraph.tiles[id] =>
                 /\ TileSuccessors(tileGraph, id) = <<>>
                 /\ TileDegree(tileGraph, id) = 0
          /\ tileGraph.tiles[id] =>
                 /\ TileSet(TileSuccessors(tileGraph, id)) = PassableNeighbours(tileGraph, id)
                 /\ Len(TileSuccessors(tileGraph, id)) = Cardinality(PassableNeighbours(tileGraph, id))
                 /\ TileDegree(tileGraph, id) = 2 * Cardinality(PassableNeighbours(tileGraph, id))
                 /\ TileDegree(WithTile(tileGraph, id, FALSE), id) = 0
                 /\ TileDegree(WithTile(WithTile(tileGraph, id, FALSE), id, TRUE), id)
                        = TileDegree(tileGraph, id)
    /\ TileSuccessors(TestGraph, 0) = <<>>
    /\ Len(TileSuccessors(TestGraph, 2)) = 2
    /\ TileSet(TileSuccessors(TestGraph, 2)) = {1, 6}
    /\ TileDegree(TestGraph, 2) = 4
    /\ TileDegree(TestGraph, 1) = 2
    /\ TileDegree(TestGraph, 0) = 0

\* A tile was set impassable while a neighbour of it is passable
C16_Witness ==
    /\ last.op = "SetPassability" /\ ~last.d
    /\ InGrid(tileGraph, last.n, last.s)
    /\ ~tileGraph.tiles[CoordsToID(tileGraph, last.n, last.s)]
    /\ PassableNeighbours(tileGraph, CoordsToID(tileGraph, last.n, last.s)) # {}
    /\ TileDegree(tileGraph, CoordsToID(tileGraph, last.n, last.s)) = 0

\* A tile was set passable in a grid that started impassable, next to
\* another passable tile: both have degree 2
C16_WitnessPassable ==
    /\ last.op = "SetPassability" /\ last.d
    /\ InGrid(tileGraph, last.n, last.s)
    /\ \E id \in TileIDs(tileGraph) : ~tileGraph.tiles[id]
    /\ Cardinality(PassableNeighbours(tileGraph, CoordsToID(tileGraph, last.n, last.s))) = 1
    /\ TileDegree(tileGraph, CoordsToID(tileGraph, last.n, last.s)) = 2

\* The number of steps of a shortest walk along successors to goal from the
\* tiles of frontier, which are d steps from the start; -1 if there is none
RECURSIVE Walk(_, _, _, _, _)
Walk(tg, frontier, seen, goal, d) ==
    IF goal \in frontier THEN d
    ELSE IF frontier = {} THEN -1
    ELSE LET next == {m \in TileIDs(tg) \ seen :
                         \E n \in frontier : TileIsSuccessor(tg, n, m)}
         IN  Walk(tg, next, seen \cup next, goal, d + 1)

Distance(tg, start, goal) == Walk(tg, {start}, {start}, goal, 0)

\* TestSimpleAStar and the first search of TestHarderAStar
SimpleAStar == AStar(1, 14, TestGraph)

HarderAStar == AStar(0, 8, NewTileGraph(3, 3, TRUE))

\* C14: AStar(start, goal, tileGraph, nil, nil), whenever goal can be reached
\* from start, returns a path that starts at start, ends at goal and
\* satisfies IsPath, with a cost equal to the least number of steps from
\* start to goal; on the 4x4 grid of the test the search from 1 to 14 returns
\* the path 1, 2, 6, 10, 14 with cost 4, and on the 3x3 grid with every tile
\* passable the search from 0 to 8 returns cost 4 and a path.
C14_AStarShortest ==
    /\ (last.op = "AStar" /\ Distance(tileGraph, last.n, last.s) >= 0) =>
          /\ result.found
          /\ Len(result.path) >= 1
          /\ result.path[1] = last.n
          /\ result.path[Len(result.path)] = last.s
          /\ IsPath(result.path, tileGraph)
          /\ result.cost = Distance(tileGraph, last.n, last.s)
    /\ SimpleAStar.found
    /\ SimpleAStar.path = <<1, 2, 6, 10, 14>>
    /\ SimpleAStar.cost = 4
    /\ HarderAStar.found
    /\ HarderAStar.cost = 4
    /\ Len(HarderAStar.path) = 5
    /\ HarderAStar.path[1] = 0 /\ HarderAStar.path[5] = 8
    /\ IsPath(HarderAStar.path, NewTileGraph(3, 3, TRUE))

\* A search that found a path of two steps around a tile that is not passable
C14_Witness ==
    /\ last.op = "AStar"
    /\ result.found
    /\ result.cost = 2
    /\ Len(result.path) = 3
    /\ \E id \in TileIDs(tileGraph) : ~tileGraph.tiles[id]

\* A search for a goal that cannot be reached returns no path
C14_WitnessUnreachable ==
    /\ last.op = "AStar"
    /\ Distance(tileGraph, last.n, last.s) < 0
    /\ ~result.found
    /\ result.path = <<>>

====
